---- MODULE Spec2Model ----
(***************************************************************************)
(* The sample-construction pipeline of src/dataloaders.py:                 *)
(*   LocalisationDataLoader (manifest, index permutation, __getitem__),    *)
(*   RandomCrop2D (pad, offset selection, crop) and ToTensor.              *)
(*                                                                         *)
(* Voxel values are fixed-point: the integer v stands for the real number  *)
(* v / Unit, so 0.0 is 0 and 1.0 is Unit.  An array is a record            *)
(*   [shape |-> <<h, w, d>>, dtype |-> "float32", data |-> f]              *)
(* with f[i][j][k] the voxel at the 0-based index (i, j, k), as in numpy.   *)
(***************************************************************************)
EXTENDS Integers, Sequences, FiniteSets, TLC

(***************************************************************************)
(* Bounds of the checked instances.                                        *)
(***************************************************************************)
MaxRows == 3
MaxSide == 3
MaxDepth == 2
MaxTarget == 3
Unit == 2

(***************************************************************************)
(* Program constants.                                                      *)
(***************************************************************************)
\* the guard 1e-6 of the label normalisation is 1 / EpsDen
EpsDen == 1000000
\* np.random.choice([0, 1, 2, 3]) draws one of NumChoices branches
NumChoices == 4

None == [cls |-> "NoneType"]

(***************************************************************************)
(* Arithmetic helpers.                                                     *)
(***************************************************************************)
Min2(a, b) == IF a <= b THEN a ELSE b
Abs(a) == IF a < 0 THEN -a ELSE a

\* np.min / np.max of a non-empty array
MinOf(S) == CHOOSE m \in S : \A x \in S : m <= x
MaxOf(S) == CHOOSE m \in S : \A x \in S : m >= x
Values(arr) ==
    UNION {UNION {{arr.data[i][j][k] : k \in DOMAIN arr.data[i][j]} :
                    j \in DOMAIN arr.data[i]} : i \in DOMAIN arr.data}
np_min(arr) == MinOf(Values(arr))
np_max(arr) == MaxOf(Values(arr))

\* an array expression evaluated once, element by element, as numpy evaluates
\* it (the value is the same; the comparison only makes the evaluation eager)
Eager(a) == IF a = a THEN a ELSE a

\* sum of f[0] .. f[n-1]
RECURSIVE SumTo(_, _)
SumTo(f, n) == IF n = 0 THEN 0 ELSE f[n - 1] + SumTo(f, n - 1)

\* np.round of the rational p / q (q > 0): to nearest, ties to the even
\* integer
np_round(p, q) ==
    LET f == p \div q
        r == p - f * q
    IN  IF 2 * r < q THEN f
        ELSE IF 2 * r > q THEN f + 1
        ELSE IF f % 2 = 0 THEN f ELSE f + 1

(***************************************************************************)
(* Arrays.                                                                 *)
(***************************************************************************)
\* the indices of an axis of n entries
Idx(n) == 0 .. n - 1

\* an array of the given shape, data[i][j][k] its voxel (i, j, k)
MkArray(shape, data) == [shape |-> shape, dtype |-> "float32", data |-> data]

\* np.pad(a, ((pad, pad), (0, 0), (0, 0)), 'constant', constant_values=fill)
PadAxis0(a, pad, fill) ==
    LET h == a.shape[1]
    IN  MkArray(<<h + 2 * pad, a.shape[2], a.shape[3]>>,
                [i \in Idx(h + 2 * pad) |->
                  [j \in Idx(a.shape[2]) |->
                    [k \in Idx(a.shape[3]) |->
                        IF i >= pad /\ i < pad + h
                        THEN a.data[i - pad][j][k] ELSE fill]]])

\* np.pad(a, ((0, 0), (pad, pad), (0, 0)), 'constant', constant_values=fill)
PadAxis1(a, pad, fill) ==
    LET w == a.shape[2]
    IN  MkArray(<<a.shape[1], w + 2 * pad, a.shape[3]>>,
                [i \in Idx(a.shape[1]) |->
                  [j \in Idx(w + 2 * pad) |->
                    [k \in Idx(a.shape[3]) |->
                        IF j >= pad /\ j < pad + w
                        THEN a.data[i][j - pad][k] ELSE fill]]])

\* extent of the slice [lo : hi] of an axis of n entries (0 <= lo <= hi)
SliceLen(n, lo, hi) == Min2(n, hi) - Min2(n, lo)

\* a[px : px + nh, py : py + nw, :]
Slice(a, px, nh, py, nw) ==
    LET sh == <<SliceLen(a.shape[1], px, px + nh),
                SliceLen(a.shape[2], py, py + nw),
                a.shape[3]>>
    IN  MkArray(sh,
                [i \in Idx(sh[1]) |->
                  [j \in Idx(sh[2]) |->
                    [k \in Idx(sh[3]) |-> a.data[px + i][py + j][k]]]])

(***************************************************************************)
(* RandomCrop2D.                                                           *)
(***************************************************************************)
\* RandomCrop2D.__init__: an int becomes a cubic 3-tuple, a 3-tuple is kept
RandomCrop2D_init(output_size, is_random) ==
    [cls |-> "RandomCrop2D",
     is_random |-> is_random,
     output_size |-> IF output_size.type = "int"
                     THEN <<output_size.val, output_size.val, output_size.val>>
                     ELSE output_size.val]

\* a variant of PadAmount without the extra voxel
PadAmount_half(new, cur) == (new - cur) \div 2

\* pad_ = (new - cur) // 2 + 1
PadAmount(new, cur) == (new - cur) \div 2 + 1

\* a variant of NeedsPad with a strict comparison
NeedsPad_strict(new, cur) == new > cur

\* the padding test of one axis: if new >= cur
NeedsPad(new, cur) == new >= cur

\* np.sum(lab, axis=0): an array of shape (w, d)
SumAxis0(lab) ==
    Eager([j \in 0 .. lab.shape[2] - 1 |->
            [k \in 0 .. lab.shape[3] - 1 |->
                SumTo([i \in 0 .. lab.shape[1] - 1 |-> lab.data[i][j][k]],
                      lab.shape[1])]])

\* sum over the whole (h, w, d) grid of g[i][j][k]
GridSum(h, w, d, g) ==
    SumTo([i \in Idx(h) |->
            SumTo([j \in Idx(w) |->
                    SumTo([k \in Idx(d) |-> g[i][j][k]], d)], w)], h)

\* the grid coordinate (taken twice, to stay integral) times the column sum:
\* axis 1 gives coords_x[i, j, k] = j - (w - 1) / 2, axis 0 gives
\* coords_y[i, j, k] = i - (h - 1) / 2
Weighted(h, w, d, S, axis) ==
    [i \in Idx(h) |->
      [j \in Idx(w) |->
        [k \in Idx(d) |->
            (IF axis = 1 THEN 2 * j - (w - 1) ELSE 2 * i - (h - 1)) * S[j][k]]]]

\* a variant of CoordsX that does not shift the mean back by (h - 1) / 2
CoordsX_uncentred(lab) ==
    LET h == lab.shape[1]
        w == lab.shape[2]
        d == lab.shape[3]
        S == SumAxis0(lab)
        n == h * w * d
    IN  np_round(GridSum(h, w, d, Weighted(h, w, d, S, 1)),
                 2 * Unit * n)

\* coords_x = np.round(np.mean(coords_x * np.sum(lab, axis=0)) + (h - 1) / 2)
\* where the meshgrid's coords_x[i, j, k] is j - (w - 1) / 2.  The mean is the
\* rational GridSum / (2 * Unit * h * w * d), the grid coordinate being taken
\* twice and the label in units of 1 / Unit.
CoordsX(lab) ==
    LET h == lab.shape[1]
        w == lab.shape[2]
        d == lab.shape[3]
        S == SumAxis0(lab)
        n == h * w * d
    IN  np_round(GridSum(h, w, d, Weighted(h, w, d, S, 1))
                   + (h - 1) * Unit * n,
                 2 * Unit * n)

\* coords_y = np.round(np.mean(coords_y * np.sum(lab, axis=0)) + (w - 1) / 2)
\* where the meshgrid's coords_y[i, j, k] is i - (h - 1) / 2
CoordsY(lab) ==
    LET h == lab.shape[1]
        w == lab.shape[2]
        d == lab.shape[3]
        S == SumAxis0(lab)
        n == h * w * d
    IN  np_round(GridSum(h, w, d, Weighted(h, w, d, S, 0))
                   + (w - 1) * Unit * n,
                 2 * Unit * n)

\* 0 if (int(c - t // 2) < 0 or int(c + t // 2) >= e) else int(c - t // 2)
StartPoint(c, t, e) ==
    IF c - t \div 2 < 0 \/ c + t \div 2 >= e THEN 0 ELSE c - t \div 2

\* patch_y, the start on the second axis, is computed from coords_x, new_h and h
PatchY(coords_x, new_h, h) == StartPoint(coords_x, new_h, h)

\* patch_x, the start on the first axis, is computed from coords_y, new_w and w
PatchX(coords_y, new_w, w) == StartPoint(coords_y, new_w, w)

\* np.random.randint(0, high): the possible draws; none when high <= 0, where
\* numpy raises ValueError
RandInt(high) == 0 .. high - 1

\* the sample returned by RandomCrop2D.__call__ for given patch starts
CropSample(sample, image, lab, patch_x, patch_y, new_h, new_w) ==
    [image |-> Slice(image, patch_x, new_h, patch_y, new_w),
     lab |-> Slice(lab, patch_x, new_h, patch_y, new_w),
     name |-> sample.name,
     img_aff |-> sample.img_aff,
     seg_aff |-> sample.seg_aff]

\* RandomCrop2D.__call__: the set of possible outcomes.  Each outcome records
\* the returned sample (None when the call raises) with the values the call
\* computed on the way.
RandomCrop2D_call(self, sample) ==
    LET h0 == sample.image.shape[1]
        w0 == sample.image.shape[2]
        new_h == self.output_size[1]
        new_w == self.output_size[2]
        pad_value == np_min(sample.image)
        pads_h == NeedsPad(new_h, h0)
        pad_h == PadAmount(new_h, h0)
        image1 == IF pads_h THEN PadAxis0(sample.image, pad_h, pad_value)
                  ELSE sample.image
        lab1 == IF pads_h THEN PadAxis0(sample.lab, pad_h, pad_value)
                ELSE sample.lab
        pads_w == NeedsPad(new_w, w0)
        pad_w == PadAmount(new_w, w0)
        image == IF pads_w THEN PadAxis1(image1, pad_w, pad_value) ELSE image1
        lab == IF pads_w THEN PadAxis1(lab1, pad_w, pad_value) ELSE lab1
        h == image.shape[1]
        w == image.shape[2]
        trace == [in_shape |-> sample.image.shape,
                  pad |-> <<IF pads_h THEN pad_h ELSE 0,
                            IF pads_w THEN pad_w ELSE 0, 0>>,
                  padded_shape |-> image.shape,
                  lab_padded_shape |-> lab.shape,
                  pad_value |-> pad_value]
    IN  IF self.is_random
        THEN IF RandInt(h - new_h) = {} \/ RandInt(w - new_w) = {}
             THEN {trace @@ [status |-> "ValueError", patch |-> <<>>,
                             coords |-> <<>>, sample |-> None]}
             ELSE {trace @@ [status |-> "ok", patch |-> <<px, py>>,
                             coords |-> <<>>,
                             sample |-> CropSample(sample, image, lab, px, py,
                                                   new_h, new_w)] :
                     px \in RandInt(h - new_h), py \in RandInt(w - new_w)}
        ELSE LET coords_x == CoordsX(lab)
                 coords_y == CoordsY(lab)
                 patch_y == PatchY(coords_x, new_h, h)
                 patch_x == PatchX(coords_y, new_w, w)
             IN  {trace @@ [status |-> "ok", patch |-> <<patch_x, patch_y>>,
                            coords |-> <<coords_x, coords_y>>,
                            sample |-> CropSample(sample, image, lab, patch_x,
                                                  patch_y, new_h, new_w)]}

(***************************************************************************)
(* ToTensor.                                                               *)
(***************************************************************************)
\* np.expand_dims(a, 0).astype(np.float32), then torch.from_numpy(..).float()
ExpandDims0(a) ==
    [shape |-> <<1>> \o a.shape, dtype |-> "float32",
     data |-> [c \in {0} |-> a.data]]

ToTensor_init == [cls |-> "ToTensor"]

\* a variant of ToTensor_call that returns the image affine for both affines
ToTensor_call_swapped(sample) ==
    [image |-> ExpandDims0(sample.image),
     lab |-> ExpandDims0(sample.lab),
     name |-> sample.name,
     img_aff |-> sample.img_aff,
     seg_aff |-> sample.img_aff]

ToTensor_call(sample) ==
    [image |-> ExpandDims0(sample.image),
     lab |-> ExpandDims0(sample.lab),
     name |-> sample.name,
     img_aff |-> sample.img_aff,
     seg_aff |-> sample.seg_aff]

(***************************************************************************)
(* The transform handed to the loader: None, one transform object, or a    *)
(* torchvision Compose of transform objects applied in order.              *)
(***************************************************************************)
Compose(ts) == [cls |-> "Compose", transforms |-> ts]

\* the result of a transform stage: the sample so far, with what a
\* RandomCrop2D stage computed and returned
StageStart(sample) ==
    [status |-> "ok", crop |-> None, cropped |-> None, sample |-> sample]

\* one transform object called on the sample of acc
CallOne(t, acc) ==
    IF t.cls = "RandomCrop2D"
    THEN {[status |-> o.status,
           crop |-> [in_shape |-> o.in_shape, pad |-> o.pad,
                     padded_shape |-> o.padded_shape,
                     lab_padded_shape |-> o.lab_padded_shape,
                     pad_value |-> o.pad_value,
                     patch |-> o.patch, coords |-> o.coords],
           cropped |-> o.sample,
           sample |-> o.sample] : o \in RandomCrop2D_call(t, acc.sample)}
    ELSE {[acc EXCEPT !.sample = ToTensor_call(acc.sample)]}

\* Compose.__call__: for t in self.transforms: sample = t(sample); an
\* exception of a stage ends the call
RECURSIVE CallAll(_, _)
CallAll(ts, acc) ==
    IF ts = <<>> \/ acc.status # "ok" THEN {acc}
    ELSE UNION {CallAll(Tail(ts), a) : a \in CallOne(Head(ts), acc)}

\* sample = self.transform(sample)
CallTransform(t, sample) ==
    IF t.cls = "Compose" THEN CallAll(t.transforms, StageStart(sample))
    ELSE CallOne(t, StageStart(sample))

(***************************************************************************)
(* File names and the volume codec.  A file name is a sequence of tokens;  *)
(* the volume codec (torchio / nibabel) is the function disk from paths to *)
(* loaded images.                                                          *)
(***************************************************************************)
RowTag == <<"0", "1", "2", "3", "4", "5", "6", "7">>

ImageFile(r) == <<"sub-", RowTag[r + 1], "_t2w", ".nii", ".gz">>
LabelFile(r) == <<"sub-", RowTag[r + 1], "_lab", ".nii", ".gz">>

\* os.path.join(folder, name)
PathJoin(folder, name) == <<folder, "/">> \o name

\* name.split('.nii')[0]: the tokens before the first '.nii'
RECURSIVE SplitNii0(_)
SplitNii0(name) ==
    IF name = <<>> \/ Head(name) = ".nii" THEN <<>>
    ELSE <<Head(name)>> \o SplitNii0(Tail(name))

\* torchio.Image(path, type) once loaded: data with a leading channel axis,
\* and the affine of the file
Image(disk_, path, type) ==
    [data |-> <<disk_[path].data>>, affine |-> disk_[path].affine, type |-> type]

(***************************************************************************)
(* Preprocessing and augmentation (torchio), modelled by their effect on   *)
(* the subject {t2w, label}.                                               *)
(***************************************************************************)
\* ZNormalization then RescaleIntensity(out_min_max=(0.0, 1.0)): the
\* intensity image is mapped affinely onto [0, 1] (its minimum to 0.0, its
\* maximum to 1.0); label images are not intensity-transformed
Rescale01(a) ==
    LET lo == np_min(a)
        hi == np_max(a)
    IN  MkArray(a.shape,
                [i \in Idx(a.shape[1]) |->
                  [j \in Idx(a.shape[2]) |->
                    [k \in Idx(a.shape[3]) |->
                        ((a.data[i][j][k] - lo) * Unit) \div (hi - lo)]]])

preprocessing(subject) ==
    [subject EXCEPT !.t2w.data = <<Rescale01(subject.t2w.data[1])>>]

\* a rotation by 180 degrees about the third axis
Rot180(a) ==
    MkArray(a.shape,
            [i \in Idx(a.shape[1]) |->
              [j \in Idx(a.shape[2]) |->
                [k \in Idx(a.shape[3]) |->
                    a.data[a.shape[1] - 1 - i][a.shape[2] - 1 - j][k]]]])

\* an intensity artifact: every voxel moves by one step, up
\* or down as the phase ci * i + cj * j + ck * k is even or odd
Ripple(a, ci, cj, ck) ==
    MkArray(a.shape,
            [i \in Idx(a.shape[1]) |->
              [j \in Idx(a.shape[2]) |->
                [k \in Idx(a.shape[3]) |->
                    a.data[i][j][k]
                      + (IF (ci * i + cj * j + ck * k) % 2 = 0
                         THEN 1 ELSE -1)]]])

\* RandomAffine(scales=(0.5, 1.5), degrees=180, isotropic=True,
\* default_pad_value='minimum'): image and label are resampled jointly
to_affine(subject) ==
    {subject,
     [subject EXCEPT !.t2w.data = <<Rot180(subject.t2w.data[1])>>,
                     !.label.data = <<Rot180(subject.label.data[1])>>]}

\* RandomMotion(degrees=2.0, translation=2.0, num_transforms=1, p=0.25):
\* applied or not; when applied the intensity image is corrupted
to_motion(subject) ==
    {subject,
     [subject EXCEPT !.t2w.data =
         <<Ripple(subject.t2w.data[1], 1, 0, 0)>>]}

\* RandomSpike(num_spikes=1, intensity=0.2, p=0.2): applied or not; when
\* applied the intensity image gets a stripe pattern
to_spike(subject) ==
    {subject,
     [subject EXCEPT !.t2w.data =
         <<Ripple(subject.t2w.data[1], 1, 1, 1)>>]}

\* a variant of augment_data that ignores self.is_augment
augment_data_always(is_augment_, subject) ==
    UNION {
      IF augmentation_choice = 0 THEN to_affine(subject)
      ELSE IF augmentation_choice = 1 THEN to_motion(subject)
      ELSE IF augmentation_choice = 2 THEN to_spike(subject)
      ELSE UNION {to_motion(s) : s \in to_affine(subject)} :
      augmentation_choice \in 0 .. NumChoices - 1}

\* LocalisationDataLoader.augment_data: the possible results
augment_data(is_augment_, subject) ==
    IF is_augment_
    THEN UNION {
           IF augmentation_choice = 0 THEN to_affine(subject)
           ELSE IF augmentation_choice = 1 THEN to_motion(subject)
           ELSE IF augmentation_choice = 2 THEN to_spike(subject)
           ELSE UNION {to_motion(s) : s \in to_affine(subject)} :
           augmentation_choice \in 0 .. NumChoices - 1}
    ELSE {subject}

(***************************************************************************)
(* LocalisationDataLoader.                                                 *)
(***************************************************************************)
\* np.arange(n)
arange(n) == [i \in 1 .. n |-> i - 1]

\* the orders np.random.shuffle can leave an array in
ShuffledOrders(seq) ==
    {[i \in 1 .. Len(seq) |-> seq[p[i]]] :
        p \in {q \in [1 .. Len(seq) -> 1 .. Len(seq)] :
                 \A a, b \in 1 .. Len(seq) : q[a] = q[b] => a = b}}

\* a variant of shuffle_indices that draws every entry independently
shuffle_indices_resample(shuffle_, indices_, n) ==
    IF shuffle_ THEN [1 .. n -> 0 .. n - 1] ELSE {arange(n)}

\* LocalisationDataLoader.shuffle_indices: the possible values of
\* self.indices after the call
shuffle_indices(shuffle_, indices_, n) ==
    IF shuffle_ THEN ShuffledOrders(indices_) ELSE {arange(n)}

\* a variant of ResolveRow that always takes the first entry
ResolveRow_first(indices_, item) == indices_[1]

\* item = self.indices[item]
ResolveRow(indices_, item) == indices_[item + 1]

\* lab_ = np.abs((lab_ - np.min(lab_)) / (np.max(lab_) - np.min(lab_) + 1e-6))
\* lab_[lab_ >= 0.5] = 1.0 ; lab_[lab_ < 0.5] = 0.0
\* With voxels in units of 1 / Unit the normalised voxel is the rational
\* |x - lo| * EpsDen / ((hi - lo) * EpsDen + Unit).
Binarize(a) ==
    LET lo == np_min(a)
        hi == np_max(a)
        den == (hi - lo) * EpsDen + Unit
    IN  MkArray(a.shape,
                [i \in Idx(a.shape[1]) |->
                  [j \in Idx(a.shape[2]) |->
                    [k \in Idx(a.shape[3]) |->
                        IF 2 * Abs((a.data[i][j][k] - lo) * EpsDen) >= den
                        THEN Unit ELSE 0]]])

\* the sample __getitem__ assembles from the augmented subject
RawSample(subj, file) ==
    [image |-> Eager(subj.t2w.data[1]),
     lab |-> Eager(Binarize(subj.label.data[1])),
     name |-> SplitNii0(file),
     img_aff |-> subj.t2w.affine,
     seg_aff |-> subj.label.affine]

\* LocalisationDataLoader.__getitem__ after the reshuffle: the possible
\* results for the permutation indices_
GetItemResults(data_file_, input_folder_, is_augment_, transform_, disk_, indices_, item) ==
    LET row == ResolveRow(indices_, item)
        img_name == PathJoin(input_folder_, data_file_[row + 1][1])
        lab_name == PathJoin(input_folder_, data_file_[row + 1][2])
        subject == [t2w |-> Image(disk_, img_name, "intensity"),
                    label |-> Image(disk_, lab_name, "label")]
    IN  UNION {
          LET sample == RawSample(aug, data_file_[row + 1][1])
          IN  IF transform_ = None
              THEN {[item |-> item, row |-> row, raw |-> sample]
                      @@ StageStart(sample)}
              ELSE {[item |-> item, row |-> row, raw |-> sample] @@ r :
                      r \in CallTransform(transform_, sample)} :
          aug \in augment_data(is_augment_, preprocessing(subject))}

(***************************************************************************)
(* State.  The loader's fields, the files behind the manifest, the result  *)
(* of the last __getitem__ call (ret), whether that call repeated the      *)
(* argument of the call before it and, for the caller's loop over          *)
(* GetItem(0), GetItem(1), ..., the position reached in the current pass   *)
(* and the manifest rows it resolved to so far.                            *)
(***************************************************************************)
VARIABLES data_file, input_folder, shuffle, is_augment, transform, indices,
          disk, ret, repeated, pass_pos, touched

loader == <<data_file, input_folder, shuffle, is_augment, transform, indices>>
vars == <<data_file, input_folder, shuffle, is_augment, transform, indices,
          disk, ret, repeated, pass_pos, touched>>

\* LocalisationDataLoader.__len__
Size == Len(data_file)

NoCall == [status |-> "none"]

(***************************************************************************)
(* The manifests, files and transforms the loader is constructed over.     *)
(***************************************************************************)
Manifest(n) == [r \in 1 .. n |-> <<ImageFile(r - 1), LabelFile(r - 1)>>]

Root == "/data"

Affine(tag) == [affine_of |-> tag]

\* the files of a manifest of n rows, row r holding vol[r] = (image, label)
Disk(n, vol) ==
    [path \in {PathJoin(Root, ImageFile(r)) : r \in 0 .. n - 1}
                \cup {PathJoin(Root, LabelFile(r)) : r \in 0 .. n - 1} |->
        LET r == CHOOSE q \in 0 .. n - 1 :
                   path \in {PathJoin(Root, ImageFile(q)),
                             PathJoin(Root, LabelFile(q))}
        IN  IF path = PathJoin(Root, ImageFile(r))
            THEN [data |-> Eager(vol[r].image), affine |-> Affine(ImageFile(r))]
            ELSE [data |-> Eager(vol[r].label), affine |-> Affine(LabelFile(r))]]

\* an intensity image that is not constant
RampImage(shape, r) ==
    MkArray(shape,
            [i \in Idx(shape[1]) |->
              [j \in Idx(shape[2]) |->
                [k \in Idx(shape[3]) |-> 3 * (i + j + k) + r]]])

\* row r of a many-row manifest: a small volume whose label file holds the
\* three values 0.0, 1.0 and 2.0 in an order depending on r
RowVolume(r) ==
    [image |-> RampImage(<<2, 2, 1>>, r),
     label |-> MkArray(<<2, 2, 1>>,
                       [i \in Idx(2) |->
                         [j \in Idx(2) |->
                           [k \in Idx(1) |-> ((i + j + r) % 3) * Unit]]])]

\* the volumes of the one-row manifests: every shape up to the bounds with
\* at least two voxels, the label a box of foreground voxels (or empty)
Shapes ==
    {sh \in (1 .. MaxSide) \X (1 .. MaxSide) \X (1 .. MaxDepth) :
        sh[1] * sh[2] * sh[3] >= 2}

\* a box: the first m rows of the columns j0 .. j1, through the whole depth
Boxes(shape) ==
    {<<0, 1, 1>>} \cup
    {b \in (1 .. shape[1]) \X (1 .. shape[2]) \X (1 .. shape[2]) : b[2] <= b[3]}

BoxLabel(shape, b) ==
    MkArray(shape,
            [i \in Idx(shape[1]) |->
              [j \in Idx(shape[2]) |->
                [k \in Idx(shape[3]) |->
                    IF i + 1 <= b[1] /\ b[2] <= j + 1 /\ j + 1 <= b[3]
                    THEN Unit ELSE 0]]])

BoxVolumes ==
    UNION {{[image |-> RampImage(sh, 0), label |-> BoxLabel(sh, b)] :
              b \in Boxes(sh)} : sh \in Shapes}

\* the constructor arguments of RandomCrop2D
OutputSizes ==
    {[type |-> "int", val |-> n] : n \in 1 .. MaxTarget}
    \cup {[type |-> "tuple", val |-> <<th, tw, MaxDepth>>] :
            th \in 1 .. MaxTarget, tw \in 1 .. MaxTarget}

Crops == {RandomCrop2D_init(o, m) : o \in OutputSizes, m \in BOOLEAN}

\* the scenario volume: shape (64, 64, 40) with an all-zero label mask
ScenarioShape == <<64, 64, 40>>
ScenarioVolume ==
    [image |-> RampImage(ScenarioShape, 0),
     label |-> MkArray(ScenarioShape,
                       [i \in Idx(ScenarioShape[1]) |->
                         [j \in Idx(ScenarioShape[2]) |->
                           [k \in Idx(ScenarioShape[3]) |-> 0]]])]
ScenarioCrop ==
    RandomCrop2D_init([type |-> "tuple", val |-> <<32, 32, 40>>], FALSE)

\* the constructor calls considered: (rows, files, is_augment, shuffle,
\* transform)
Case(n, vol, a, s, t) ==
    [n |-> n, disk |-> Disk(n, vol), is_augment |-> a, shuffle |-> s,
     transform |-> t]

\* manifests of several rows, no transform
ManyRowCases ==
    {Case(n, [r \in Idx(n) |-> RowVolume(r)], FALSE, s, None) :
        n \in 1 .. MaxRows, s \in BOOLEAN}

\* one-row manifests over every volume, cropped and packaged
CropCases ==
    {Case(1, [r \in Idx(1) |-> v], FALSE, FALSE, Compose(<<c, ToTensor_init>>)) :
        v \in BoxVolumes, c \in Crops}

\* with augmentation: the volumes of at most MaxSide voxels
AugmentedCases ==
    {Case(1, [r \in Idx(1) |-> v], TRUE, FALSE, t) :
        v \in {u \in BoxVolumes :
                 u.label.shape[1] * u.label.shape[2] * u.label.shape[3]
                   <= MaxSide},
        t \in {None} \cup {Compose(<<c, ToTensor_init>>) : c \in Crops}}

\* the scenario of the centroid crop: one row, the volume of shape
\* (64, 64, 40) with an all-zero mask, target size (32, 32, 40)
ScenarioCases ==
    {Case(1, [r \in Idx(1) |-> ScenarioVolume], FALSE, FALSE, t) :
        t \in {ScenarioCrop, Compose(<<ScenarioCrop, ToTensor_init>>)}}

Cases == ManyRowCases \cup CropCases \cup AugmentedCases \cup ScenarioCases

\* the scenario of the full pass: a manifest of five rows
PassCases ==
    {Case(5, [r \in Idx(5) |-> RowVolume(r)], FALSE, s, None) : s \in BOOLEAN}

(***************************************************************************)
(* LocalisationDataLoader.__init__, which ends with self.shuffle_indices() *)
(***************************************************************************)
LocalisationDataLoader_init(c) ==
    /\ data_file = Manifest(c.n)
    /\ input_folder = Root
    /\ shuffle = c.shuffle
    /\ is_augment = c.is_augment
    /\ transform = c.transform
    /\ indices \in shuffle_indices(c.shuffle, arange(c.n), c.n)
    /\ disk = c.disk
    /\ ret = NoCall
    /\ repeated = FALSE
    /\ pass_pos = 0
    /\ touched = {}

Init == \E c \in Cases : LocalisationDataLoader_init(c)

InitPass == \E c \in PassCases : LocalisationDataLoader_init(c)

(***************************************************************************)
(* LocalisationDataLoader.__getitem__(item), the whole call: reshuffle,    *)
(* load, preprocess, augment, binarize, transform.                         *)
(***************************************************************************)
GetItem(item) ==
    /\ \E ind \in shuffle_indices(shuffle, indices, Size) :
        \E r \in GetItemResults(data_file, input_folder, is_augment,
                                transform, disk, ind, item) :
            /\ indices' = ind
            /\ ret' = r
            /\ repeated' = (ret.status # "none" /\ ret.item = item)
            \* the caller's pass: GetItem(pass_pos) extends it, GetItem(0)
            \* starts a new one, any other call abandons it
            /\ IF item = pass_pos
               THEN pass_pos' = pass_pos + 1 /\ touched' = touched \cup {r.row}
               ELSE IF item = 0
               THEN pass_pos' = 1 /\ touched' = {r.row}
               ELSE pass_pos' = 0 /\ touched' = {}
    /\ UNCHANGED <<data_file, input_folder, shuffle, is_augment, transform,
                   disk>>

Next == \E item \in 0 .. Size - 1 : GetItem(item)

Spec == Init /\ [][Next]_vars

\* one full pass of the caller: GetItem(0), GetItem(1), ..., GetItem(N - 1)
NextPass == pass_pos < Size /\ GetItem(pass_pos)

SpecPass == InitPass /\ [][NextPass]_vars

(***************************************************************************)
(* What the properties below read from the state.                          *)
(***************************************************************************)
Called == ret.status # "none"
Returned == ret.status = "ok"

\* the last call ran a RandomCrop2D stage
Cropped == Called /\ ret.crop # None

\* the RandomCrop2D object of the configured transform
CropObj ==
    IF transform.cls = "Compose" THEN transform.transforms[1] ELSE transform
TargetH == CropObj.output_size[1]
TargetW == CropObj.output_size[2]
TargetD == CropObj.output_size[3]

\* the voxel values of a 3-D array or of a packaged 4-D tensor
VoxelValues(a) ==
    IF Len(a.shape) = 4 THEN Values([shape |-> Tail(a.shape), data |-> a.data[0]])
    ELSE Values(a)

Binary(a) == VoxelValues(a) \subseteq {0, Unit}

RowsOf == 0 .. Size - 1

\* the last call is the scenario of the centroid crop
Scenario ==
    /\ Cropped
    /\ ret.raw.image.shape = ScenarioShape
    /\ CropObj = ScenarioCrop
    /\ Values(ret.raw.lab) = {0}

(***************************************************************************)
(* C1.  After construction and any sequence of __getitem__ calls, with or  *)
(* without shuffling, self.indices has length N and holds every row index  *)
(* of [0, N) exactly once; so __len__ is N and the row a call resolved to  *)
(* is a manifest row in [0, N).                                            *)
(***************************************************************************)
C1_Permutation ==
    /\ Len(indices) = Size
    /\ \A r \in RowsOf : Cardinality({i \in 1 .. Size : indices[i] = r}) = 1
    /\ Called => ret.item \in RowsOf /\ ret.row \in RowsOf

C1_Witness ==
    /\ shuffle
    /\ Size >= 3
    /\ Called
    /\ indices # arange(Size)
    /\ ret.row # ret.item

(***************************************************************************)
(* C2.  As claimed: with shuffle enabled and five rows, the pass           *)
(* GetItem(0), ..., GetItem(4) resolves to five distinct manifest rows.    *)
(***************************************************************************)
C2_Original ==
    (shuffle /\ Size = 5 /\ pass_pos = 5) => touched = RowsOf

(***************************************************************************)
(* C2, amended.  With five rows, every call of the pass GetItem(0), ...,   *)
(* GetItem(4) resolves to a manifest row of [0, 5), so after k calls at    *)
(* least one and at most k rows were touched; the five rows are all        *)
(* distinct when shuffle is disabled, and need not be when it is enabled   *)
(* (the permutation is reshuffled before every call).                      *)
(***************************************************************************)
C2_PassRows ==
    Size = 5 =>
        /\ touched \subseteq RowsOf
        /\ Cardinality(touched) <= pass_pos
        /\ pass_pos >= 1 => touched # {}
        /\ (~shuffle /\ pass_pos = 5) => touched = RowsOf
        /\ ~shuffle => touched = 0 .. pass_pos - 1

C2_Witness ==
    /\ shuffle
    /\ Size = 5
    /\ pass_pos = 5
    /\ Cardinality(touched) < 5

(***************************************************************************)
(* C3.  In random mode and in centroid mode, for every input shape         *)
(* (h, w, d) and every target (th, tw, td), the image and the label        *)
(* returned by RandomCrop2D.__call__ have shape (th, tw, d).               *)
(***************************************************************************)
C3_CropShape ==
    (Cropped /\ Returned) =>
        /\ ret.cropped.image.shape = <<TargetH, TargetW, ret.raw.image.shape[3]>>
        /\ ret.cropped.lab.shape = <<TargetH, TargetW, ret.raw.lab.shape[3]>>

(***************************************************************************)
(* C4.  Every voxel of every label the pipeline outputs is exactly 0.0 or  *)
(* 1.0: in the raw sample of __getitem__, and still after RandomCrop2D     *)
(* (padding included) and ToTensor.                                        *)
(***************************************************************************)
C4_LabelBinary ==
    Returned =>
        /\ Binary(ret.raw.lab)
        /\ ret.cropped # None => Binary(ret.cropped.lab)
        /\ Binary(ret.sample.lab)

(***************************************************************************)
(* C5.  As claimed: for the image of shape (64, 64, 40) with an all-zero   *)
(* mask, target (32, 32, 40) and centroid mode, the offset is 0 on both    *)
(* axes and the crop is [0:32, 0:32, 0:40].                                *)
(***************************************************************************)
C5_Original ==
    Scenario =>
        /\ ret.crop.patch = <<0, 0>>
        /\ ret.cropped.image = Slice(ret.raw.image, 0, 32, 0, 32)
        /\ ret.cropped.lab = Slice(ret.raw.lab, 0, 32, 0, 32)

(***************************************************************************)
(* C5, amended.  For the image of shape (64, 64, 40) with an all-zero      *)
(* mask, target (32, 32, 40) and centroid mode, both rounded coordinates   *)
(* are 32, the offset is 16 on both axes and the crop is                   *)
(* [16:48, 16:48, 0:40] of image and label.                                *)
(***************************************************************************)
C5_ScenarioCrop ==
    Scenario =>
        /\ ret.crop.coords = <<32, 32>>
        /\ ret.crop.patch = <<16, 16>>
        /\ ret.cropped.image = Slice(ret.raw.image, 16, 32, 16, 32)
        /\ ret.cropped.lab = Slice(ret.raw.lab, 16, 32, 16, 32)
        /\ ret.cropped.image.shape = <<32, 32, 40>>

C5_Witness == Scenario /\ Returned

(***************************************************************************)
(* C6.  In centroid mode, on each of the first two axes, with c the        *)
(* rounded coordinate the call uses for that axis, t the target size of    *)
(* that axis and e the extent of that axis after padding, the offset       *)
(* applied to the axis is 0 when c - t // 2 < 0 or c + t // 2 >= e and     *)
(* c - t // 2 otherwise.  (The offset of the first axis is computed from   *)
(* coords_y, that of the second from coords_x.)                            *)
(***************************************************************************)
WindowStart(c, t, e) ==
    IF c - t \div 2 < 0 \/ c + t \div 2 >= e THEN 0 ELSE c - t \div 2

C6_CentroidOffsets ==
    (Cropped /\ Returned /\ ~CropObj.is_random) =>
        /\ ret.crop.patch[1] =
             WindowStart(ret.crop.coords[2], TargetH, ret.crop.padded_shape[1])
        /\ ret.crop.patch[2] =
             WindowStart(ret.crop.coords[1], TargetW, ret.crop.padded_shape[2])

(***************************************************************************)
(* C7.  As claimed: with shuffle and augmentation disabled, two calls      *)
(* GetItem(i) return identical samples (same row, same name, same label    *)
(* array), whatever transform is configured.                               *)
(***************************************************************************)
SameRowNameLabel ==
    /\ ret'.row = ret.row
    /\ ret'.sample.name = ret.sample.name
    /\ ret'.sample.lab = ret.sample.lab

C7_Original ==
    [][(repeated' /\ ~shuffle /\ ~is_augment) => SameRowNameLabel]_vars

(***************************************************************************)
(* C7, amended.  With shuffle disabled the index permutation is the        *)
(* identity after construction and after every call, and GetItem(i)        *)
(* resolves to row i; with augmentation disabled too, two calls GetItem(i) *)
(* build the same raw sample (row, name, image, label), and return the     *)
(* same sample when the configured transform draws nothing at random (no   *)
(* transform, or RandomCrop2D in centroid mode, with or without ToTensor). *)
(***************************************************************************)
DrawsNothing == transform = None \/ ~CropObj.is_random

C7_Identity ==
    ~shuffle => /\ indices = arange(Size)
                /\ Called => ret.row = ret.item

C7_Repeat ==
    (repeated' /\ ~shuffle /\ ~is_augment) =>
        /\ ret'.row = ret.row
        /\ ret'.raw = ret.raw
        /\ DrawsNothing => ret' = ret

C7_SameSample == []C7_Identity /\ [][C7_Repeat]_vars

C7_Witness ==
    /\ repeated
    /\ ~shuffle
    /\ ~is_augment
    /\ Returned
    /\ transform # None
    /\ ~CropObj.is_random
    /\ VoxelValues(ret.sample.lab) = {0, Unit}

(***************************************************************************)
(* C8.  RandomCrop2D.__call__ pads the first axis if and only if th >= h,  *)
(* by (th - h) // 2 + 1 voxels on each side, and likewise the second axis  *)
(* against tw; a padded axis then has at least the target extent; the      *)
(* third axis is never padded, whatever td is.                             *)
(***************************************************************************)
PaddedAsClaimed(pad, target, before, after) ==
    /\ pad > 0 <=> target >= before
    /\ target >= before => pad = (target - before) \div 2 + 1
    /\ after = before + 2 * pad
    /\ pad > 0 => after >= target

SameLabels(a, b) ==
    /\ a.name = b.name
    /\ a.img_aff = b.img_aff
    /\ a.seg_aff = b.seg_aff

C10_Step ==
    /\ UNCHANGED <<data_file, input_folder, shuffle, is_augment, transform, disk>>
    /\ ~shuffle => UNCHANGED loader
    /\ (ret'.status = "ok") =>
          /\ SameLabels(ret'.sample, ret'.raw)
          /\ ret'.cropped # None => SameLabels(ret'.cropped, ret'.raw)

C10_Frame == [][C10_Step]_vars

C10_Witness ==
    /\ Returned
    /\ ~shuffle
    /\ transform.cls = "Compose"
    /\ Len(ret.sample.image.shape) = 4
    /\ ret.sample.img_aff # ret.sample.seg_aff

====
